---- MODULE Spec2Model ----
(***************************************************************************)
(* Model of the three batch scripts of PFGM-CompositeGraviton:             *)
(*   scripts/check_spin2_structure.py      (tensor contraction sampler)     *)
(*   scripts/scan_healthy_band.py          (parameter grid scanner)         *)
(*   scripts/make_all_figures_and_tables.py (report generator)              *)
(*                                                                         *)
(* Python floats are IEEE-754 binary64 values.  They are modelled bit for  *)
(* bit: a finite double is a record [neg, m, e] standing for               *)
(* (-1)^neg * m * 2^e, where m is either zero or a 53-bit natural number.  *)
(* Naturals wider than a machine word are little-endian sequences of       *)
(* 15-bit limbs.  Every arithmetic operation computes the exact result and *)
(* rounds it to nearest, ties to even, as the hardware does.  The exponent *)
(* range is not modelled: no value of these scripts comes anywhere near    *)
(* overflow or the subnormal range.                                        *)
(***************************************************************************)
EXTENDS Integers, Sequences, FiniteSets, TLC

(***************************************************************************)
(* Multi-limb naturals.                                                    *)
(***************************************************************************)
LimbBits == 5 * 3
Base == 2 ^ LimbBits

Limb(a, i) == IF i <= Len(a) THEN a[i] ELSE 0

RECURSIVE BNorm(_)
BNorm(a) ==
  IF a = <<>> THEN a
  ELSE IF a[Len(a)] = 0 THEN BNorm(SubSeq(a, 1, Len(a) - 1)) ELSE a

BNat(n) ==
  IF n = 0 THEN <<>>
  ELSE IF n < Base THEN <<n>>
  ELSE IF n < Base * Base THEN <<n % Base, n \div Base>>
  ELSE <<n % Base, (n \div Base) % Base, n \div (Base * Base)>>

RECURSIVE BAddFrom(_, _, _, _)
BAddFrom(a, b, i, c) ==
  IF i > Len(a) /\ i > Len(b)
  THEN IF c = 0 THEN <<>> ELSE <<c>>
  ELSE LET s == Limb(a, i) + Limb(b, i) + c
       IN  <<s % Base>> \o BAddFrom(a, b, i + 1, s \div Base)

BAdd(a, b) == BAddFrom(a, b, 1, 0)

RECURSIVE BSubFrom(_, _, _, _)
BSubFrom(a, b, i, c) ==
  IF i > Len(a) THEN <<>>
  ELSE LET s == a[i] - Limb(b, i) - c
       IN  IF s < 0 THEN <<s + Base>> \o BSubFrom(a, b, i + 1, 1)
           ELSE <<s>> \o BSubFrom(a, b, i + 1, 0)

\* a - b for a >= b
BSub(a, b) == BNorm(BSubFrom(a, b, 1, 0))

RECURSIVE BCmpFrom(_, _, _)
BCmpFrom(a, b, i) ==
  IF i = 0 THEN 0
  ELSE IF a[i] < b[i] THEN -1
  ELSE IF a[i] > b[i] THEN 1
  ELSE BCmpFrom(a, b, i - 1)

\* -1, 0, 1 as a < b, a = b, a > b (both normalised)
BCmp(a, b) ==
  IF Len(a) < Len(b) THEN -1
  ELSE IF Len(a) > Len(b) THEN 1
  ELSE BCmpFrom(a, b, Len(a))

RECURSIVE BMulSmallFrom(_, _, _, _)
BMulSmallFrom(a, c, i, carry) ==
  IF i > Len(a)
  THEN IF carry = 0 THEN <<>> ELSE <<carry>>
  ELSE LET s == a[i] * c + carry
       IN  <<s % Base>> \o BMulSmallFrom(a, c, i + 1, s \div Base)

\* a * c for 0 <= c < Base
BMulSmall(a, c) == IF c = 0 THEN <<>> ELSE BMulSmallFrom(a, c, 1, 0)

Zeros(n) == [i \in 1..n |-> 0]

RECURSIVE BMulFrom(_, _, _)
BMulFrom(a, b, i) ==
  IF i > Len(b) THEN <<>>
  ELSE BAdd(IF b[i] = 0 THEN <<>> ELSE Zeros(i - 1) \o BMulSmall(a, b[i]),
            BMulFrom(a, b, i + 1))

BMul(a, b) == IF a = <<>> \/ b = <<>> THEN <<>> ELSE BMulFrom(a, b, 1)

\* a * 2^k
BShl(a, k) ==
  IF a = <<>> THEN <<>>
  ELSE Zeros(k \div LimbBits) \o BMulSmall(a, 2 ^ (k % LimbBits))

RECURSIVE BDivSmallFrom(_, _, _, _)
BDivSmallFrom(a, d, i, r) ==
  IF i = 0 THEN <<>>
  ELSE LET cur == r * Base + a[i]
       IN  BDivSmallFrom(a, d, i - 1, cur % d) \o <<cur \div d>>

\* floor(a / d) for 0 < d < Base
BDivSmall(a, d) == BNorm(BDivSmallFrom(a, d, Len(a), 0))

RECURSIVE BModSmallFrom(_, _, _, _)
BModSmallFrom(a, d, i, r) ==
  IF i = 0 THEN r ELSE BModSmallFrom(a, d, i - 1, (r * Base + a[i]) % d)

BModSmall(a, d) == BModSmallFrom(a, d, Len(a), 0)

\* floor(a / 2^k)
BShr(a, k) ==
  LET w == k \div LimbBits
  IN  IF w >= Len(a) THEN <<>>
      ELSE BDivSmall(SubSeq(a, w + 1, Len(a)), 2 ^ (k % LimbBits))

\* a mod 2^k = 0
BLowZero(a, k) ==
  LET w == k \div LimbBits
  IN  /\ \A i \in 1..w : Limb(a, i) = 0
      /\ Limb(a, w + 1) % (2 ^ (k % LimbBits)) = 0

BOdd(a) == a # <<>> /\ a[1] % 2 = 1

RECURSIVE LimbLen(_)
LimbLen(x) == IF x = 0 THEN 0 ELSE 1 + LimbLen(x \div 2)

\* number of significant bits
BBitLen(a) == IF a = <<>> THEN 0 ELSE LimbBits * (Len(a) - 1) + LimbLen(a[Len(a)])

\* q = floor(a / 2^k) from t = floor(a / 2^(k-1)), rounded up when the
\* dropped part is over one half, or is one half and q is odd
BRoundFrom(a, k, t, q) ==
  IF BOdd(t) /\ (~BLowZero(a, k - 1) \/ BOdd(q)) THEN BAdd(q, <<1>>) ELSE q

BRoundTo(a, k, t) == BRoundFrom(a, k, t, BShr(t, 1))

\* a / 2^k rounded to the nearest natural, ties to even
BRoundShr(a, k) == IF k = 0 THEN a ELSE BRoundTo(a, k, BShr(a, k - 1))

(***************************************************************************)
(* binary64 values.                                                        *)
(***************************************************************************)
MantBits == 52 + 1

\* a rounded mantissa q may have carried into one more bit
PackRounded(neg, q, E) ==
  IF BBitLen(q) > MantBits THEN [neg |-> neg, m |-> BShr(q, 1), e |-> E + 1]
  ELSE [neg |-> neg, m |-> q, e |-> E]

\* M has L significant bits
PackBits(neg, M, E, L) ==
  IF L = 0 THEN [neg |-> neg, m |-> <<>>, e |-> 0]
  ELSE IF L <= MantBits
  THEN [neg |-> neg, m |-> BShl(M, MantBits - L), e |-> E - (MantBits - L)]
  ELSE PackRounded(neg, BRoundShr(M, L - MantBits), E + (L - MantBits))

\* The double nearest to (-1)^neg * M * 2^E (round to nearest, ties to even).
Pack(neg, M, E) == PackBits(neg, M, E, BBitLen(M))

FIsZero(x) == x.m = <<>>

FNeg(x) == [x EXCEPT !.neg = ~x.neg]

FAbs(x) == [x EXCEPT !.neg = FALSE]

\* X and Y are the two mantissas at the common exponent e, c compares them
AddSigned(x, y, e, X, Y, c) ==
  IF x.neg # y.neg /\ c = 0 THEN [neg |-> FALSE, m |-> <<>>, e |-> 0]
  ELSE Pack(IF x.neg = y.neg \/ c > 0 THEN x.neg ELSE y.neg,
            IF x.neg = y.neg THEN BAdd(X, Y)
            ELSE IF c > 0 THEN BSub(X, Y) ELSE BSub(Y, X),
            e)

AddAligned(x, y, e, X, Y) == AddSigned(x, y, e, X, Y, BCmp(X, Y))

AddAt(x, y, e) == AddAligned(x, y, e, BShl(x.m, x.e - e), BShl(y.m, y.e - e))

\* x + y
FAdd(x, y) ==
  IF FIsZero(x) /\ FIsZero(y) THEN [x EXCEPT !.neg = x.neg /\ y.neg]
  ELSE IF FIsZero(x) THEN y
  ELSE IF FIsZero(y) THEN x
  ELSE AddAt(x, y, IF x.e < y.e THEN x.e ELSE y.e)

\* x - y
FSub(x, y) == FAdd(x, FNeg(y))

\* x * y
FMul(x, y) ==
  IF FIsZero(x) \/ FIsZero(y) THEN [neg |-> x.neg # y.neg, m |-> <<>>, e |-> 0]
  ELSE Pack(x.neg # y.neg, BMul(x.m, y.m), x.e + y.e)

\* One step of restoring division by b: from qr = <<q, r>> to the pair for
\* one more quotient bit.
DivShifted(q2, r2, b) ==
  IF BCmp(r2, b) >= 0 THEN <<BAdd(q2, <<1>>), BSub(r2, b)>> ELSE <<q2, r2>>

DivStep(qr, b) == DivShifted(BShl(qr[1], 1), BShl(qr[2], 1), b)

\* Restoring division of two 53-bit mantissas: after n doubling steps the
\* pair qr = <<q, r>> holds q = floor(a * 2^steps / b) and the remainder r.
\* Once r = 0 every further step only doubles q.
RECURSIVE DivSteps(_, _, _)
DivSteps(qr, b, n) ==
  IF n = 0 THEN qr
  ELSE IF qr[2] = <<>> THEN <<BShl(qr[1], n), <<>> >>
  ELSE IF n >= 4
  THEN DivSteps(DivStep(DivStep(DivStep(DivStep(qr, b), b), b), b), b, n - 4)
  ELSE DivSteps(DivStep(qr, b), b, n - 1)

GuardBits == MantBits + 2

\* the quotient bits qr[1] with a sticky bit for a non-zero remainder qr[2]
PackQuot(neg, qr, E) ==
  Pack(neg, BAdd(BShl(qr[1], 1), IF qr[2] = <<>> THEN <<>> ELSE <<1>>), E)

\* x / y for y # 0
FDiv(x, y) ==
  IF FIsZero(x) THEN [neg |-> x.neg # y.neg, m |-> <<>>, e |-> 0]
  ELSE PackQuot(x.neg # y.neg,
                DivSteps(IF BCmp(x.m, y.m) >= 0 THEN <<(<<1>>), BSub(x.m, y.m)>>
                         ELSE <<(<<>>), x.m>>, y.m, GuardBits),
                x.e - y.e - GuardBits - 1)

\* sign of x: -1, 0, 1
FSign(x) == IF FIsZero(x) THEN 0 ELSE IF x.neg THEN -1 ELSE 1

\* x and y of the same non-zero sign
CmpMagnitude(x, y, c) == IF x.neg THEN -c ELSE c

CmpSigns(x, y, sx, sy) ==
  IF sx # sy THEN (IF sx < sy THEN -1 ELSE 1)
  ELSE IF sx = 0 THEN 0
  ELSE CmpMagnitude(x, y, IF x.e # y.e THEN (IF x.e < y.e THEN -1 ELSE 1)
                          ELSE BCmp(x.m, y.m))

\* -1, 0, 1 as x < y, x = y, x > y
FCmp(x, y) == CmpSigns(x, y, FSign(x), FSign(y))

FLt(x, y) == FCmp(x, y) < 0
FLe(x, y) == FCmp(x, y) <= 0
FGt(x, y) == FCmp(x, y) > 0
FEq(x, y) == FCmp(x, y) = 0

\* ad = <<a, dropped>>: <<floor(a / 10^p), whether a remainder was dropped>>
RECURSIVE DivPow10(_, _)
DivPow10(ad, p) ==
  IF p = 0 \/ ad[1] = <<>> THEN ad
  ELSE DivPow10(<<BDivSmall(ad[1], 10), ad[2] \/ BModSmall(ad[1], 10) # 0>>, p - 1)

RECURSIVE MulPow10(_, _)
MulPow10(a, p) == IF p = 0 \/ a = <<>> THEN a ELSE MulPow10(BMulSmall(a, 10), p - 1)

\* the quotient and, as a one-limb natural, whether a remainder was dropped
DecSticky(qd) == <<qd[1], IF qd[2] THEN <<1>> ELSE <<>> >>

\* float("<n>e<p10>") for a natural n given in limbs: the double nearest to
\* (-1)^neg * n * 10^p10.  For p10 < 0 the quotient n * 2^sh / 10^-p10 is taken
\* with sh = 4 * -p10 + MantBits + 3 bits, enough to round it once.
DecToDouble(neg, n, p10) ==
  IF n = <<>> THEN [neg |-> neg, m |-> <<>>, e |-> 0]
  ELSE IF p10 >= 0 THEN Pack(neg, MulPow10(n, p10), 0)
  ELSE PackQuot(neg,
                DecSticky(DivPow10(<<BShl(n, 4 * (-p10) + MantBits + 3), FALSE>>, -p10)),
                -(4 * (-p10) + MantBits + 3) - 1)

\* a float literal "<n>e<p10>" of the source, n a small natural
Lit(n, p10) == DecToDouble(FALSE, BNat(n), p10)

NegLit(n, p10) == DecToDouble(TRUE, BNat(n), p10)

\* One step of long division: d2 is the divisor for this quotient bit.
BDivHalved(q2, r, d2) ==
  IF BCmp(r, d2) >= 0 THEN <<BAdd(q2, <<1>>), BSub(r, d2), d2>> ELSE <<q2, r, d2>>

BDivStep(qrd) == BDivHalved(BShl(qrd[1], 1), qrd[2], BShr(qrd[3], 1))

\* Long division: <<q, r>> with num = q * den + r, 0 <= r < den.  The triple
\* qrd holds the quotient and remainder so far and the divisor den * 2^n.
\* Once the remainder is 0 every further step only doubles the quotient.
RECURSIVE BDivSteps(_, _)
BDivSteps(qrd, n) ==
  IF n = 0 THEN qrd
  ELSE IF qrd[2] = <<>> THEN <<BShl(qrd[1], n), <<>>, qrd[3]>>
  ELSE IF n >= 4 THEN BDivSteps(BDivStep(BDivStep(BDivStep(BDivStep(qrd)))), n - 4)
  ELSE BDivSteps(BDivStep(qrd), n - 1)

BDivBits(num, den, n) == BDivSteps(<<(<<>>), num, BShl(den, n)>>, n)

BDivLens(num, den, ln, ld) == BDivBits(num, den, IF ln < ld THEN 0 ELSE ln - ld + 1)

BDivMod(num, den) == BDivLens(num, den, BBitLen(num), BBitLen(den))

\* <<floor(num / den), -1 | 0 | 1>>: the integer part and how the fraction
\* compares with one half
HalfCmp(qr, den) == <<qr[1], BCmp(BShl(qr[2], 1), den)>>

DivHalf(num, den) == HalfCmp(BDivMod(num, den), den)

\* |x| * 10^s = num / den
ScaleNum(x, s) ==
  MulPow10(IF x.e >= 0 THEN BShl(x.m, x.e) ELSE x.m, IF s >= 0 THEN s ELSE 0)

ScaleDen(x, s) ==
  MulPow10(IF x.e >= 0 THEN <<1>> ELSE BShl(<<1>>, -x.e), IF s >= 0 THEN 0 ELSE -s)

\* |x| * 10^s as the pair <<floor, -1 | 0 | 1>>
ScaleDec(x, s) == DivHalf(ScaleNum(x, s), ScaleDen(x, s))

Pow10(n) == MulPow10(<<1>>, n)

\* est is floor(log10 |x|) or one less
Log10From(x, est) ==
  IF BCmp(ScaleDec(x, -(est + 1))[1], <<1>>) >= 0 THEN est + 1 ELSE est

\* floor(log10 |x|) for x # 0
Log10Floor(x) == Log10From(x, ((x.e + MantBits - 1) * 30103) \div 100000)

RECURSIVE StripZeros(_)
StripZeros(dec) ==
  IF dec.d = <<>> THEN [dec EXCEPT !.p = 0]
  ELSE IF BModSmall(dec.d, 10) = 0
  THEN StripZeros([dec EXCEPT !.d = BDivSmall(dec.d, 10), !.p = dec.p + 1])
  ELSE dec

\* A decimal is its sign, its digits d and its exponent p, standing for
\* (-1)^neg * d * 10^p.  fh = ScaleDec(x, s); near is the rounding of x to the
\* digits kept (ties to even), the other neighbour otherwise.
DecFrom(x, s, fh, near) ==
  StripZeros([neg |-> x.neg, p |-> -s,
              d |-> IF (fh[2] > 0 \/ (fh[2] = 0 /\ BOdd(fh[1]))) = near
                    THEN BAdd(fh[1], <<1>>) ELSE fh[1]])

DecAt(x, s, near) == DecFrom(x, s, ScaleDec(x, s), near)

\* x rounded to n significant decimal digits (ties to even)
RoundDec(x, n) ==
  IF FIsZero(x) THEN [neg |-> x.neg, d |-> <<>>, p |-> 0]
  ELSE DecAt(x, n - 1 - Log10Floor(x), TRUE)

\* float(s) of a decimal string
ParseDec(dec) == DecToDouble(dec.neg, dec.d, dec.p)

\* the other n-digit neighbour of x, on the far side of RoundDec(x, n)
FarDec(x, n) == DecAt(x, n - 1 - Log10Floor(x), FALSE)

MaxDigits == 16 + 1

\* repr(x): the shortest decimal that float() reads back as x, the nearest to
\* x among those of that length
RECURSIVE ReprFrom(_, _)
RECURSIVE ReprPick(_, _, _, _)
ReprFrom(x, n) == ReprPick(x, n, RoundDec(x, n), FarDec(x, n))

ReprPick(x, n, near, far) ==
  IF n >= MaxDigits \/ ParseDec(near) = x THEN near
  ELSE IF ParseDec(far) = x THEN far
  ELSE ReprFrom(x, n + 1)

Repr(x) == IF FIsZero(x) THEN [neg |-> x.neg, d |-> <<>>, p |-> 0] ELSE ReprFrom(x, 1)

\* f"{x:.6g}": six significant digits
Fmt6g(x) == RoundDec(x, 6)

\* f"{x:.3f}": the decimal with three fractional digits nearest to x (ties to
\* even), kept as its sign and its number of thousandths; "-0.000" keeps neg.
Fmt3(x) ==
  [neg |-> x.neg,
   t |-> IF FIsZero(x) THEN <<>>
         ELSE IF x.e >= 0 THEN BShl(BMulSmall(x.m, 1000), x.e)
         ELSE BRoundShr(BMulSmall(x.m, 1000), -x.e)]

\* float(s) of a three-decimal field
ParseFloat3(f) == DecToDouble(f.neg, f.t, -3)

\* str(int(b)) of a bool, and int(s) of such a field
BoolField(b) == IF b THEN "1" ELSE "0"

ParseInt(s) == IF s = "1" THEN 1 ELSE 0

\* float(n) of a natural n < Base^3
IntToDouble(n) == Pack(FALSE, BNat(n), 0)

\* a name not yet bound in the running process
Undefined == [neg |-> FALSE, m |-> <<>>, e |-> -1]

Zero == Lit(0, 0)

(***************************************************************************)
(* scripts/scan_healthy_band.py                                            *)
(***************************************************************************)
X0 == Lit(1, 0)
PPRIME_MIN == NegLit(2, 0)
PPRIME_MAX == Lit(2, 0)
PPRIME_STEP == Lit(1, -1)
P2PRIME_MIN == NegLit(2, 0)
P2PRIME_MAX == Lit(2, 0)
P2PRIME_STEP == Lit(1, -1)
FrangePad == Lit(1, -9)
Two == Lit(2, 0)

BandHeader == <<"Pprime", "P2prime", "Zs", "Zt", "cs2", "ghost_ok", "grad_ok">>

\* the loop test without its tolerance:  x <= stop
FrangeContinuesExact(x, stop) == FLe(x, stop)

\* frange: the loop test  x <= stop + 1e-9
FrangeContinues(x, stop) == FLe(x, FAdd(stop, FrangePad))

\* frange: x += step
FrangeAdvance(x, step) == FAdd(x, step)

ZsOf(Pprime) == Pprime

ZtOf(Pprime, P2prime) == FAdd(Pprime, FMul(FMul(Two, X0), P2prime))

\* the comparison turned round:  Zt < 0.0
GhostOkInverted(Zt) == FLt(Zt, Zero)

GhostOk(Zt) == FGt(Zt, Zero)

GradOk(Zs) == FGt(Zs, Zero)

\* cs2 = None; if ghost_ok: cs2 = Zs / Zt      (None is <<>>, a value v is <<v>>)
Cs2Of(Zs, Zt, ghost_ok) == IF ghost_ok THEN <<FDiv(Zs, Zt)>> ELSE <<>>

\* the list handed to writer.writerow
BandRow(Pprime, P2prime, Zs, Zt, cs2, ghost_ok, grad_ok) ==
  [Pprime |-> Fmt3(Pprime), P2prime |-> Fmt3(P2prime),
   Zs |-> Fmt3(Zs), Zt |-> Fmt3(Zt),
   cs2 |-> IF cs2 = <<>> THEN <<>> ELSE <<Fmt3(cs2[1])>>,
   ghost_ok |-> BoolField(ghost_ok), grad_ok |-> BoolField(grad_ok)]

ScanIdle ==
  [xo |-> Undefined, xi |-> Undefined, Pprime |-> Undefined, P2prime |-> Undefined,
   Zs |-> Undefined, Zt |-> Undefined, cs2 |-> <<>>,
   ghost_ok |-> FALSE, grad_ok |-> FALSE]

NoFile == [header |-> <<>>, rows |-> <<>>]

VARIABLES
  pc,        \* position of the running script
  scan,      \* scan_healthy_band.py: generator states and loop variables
  band_csv,  \* data/healthy_band_scan.csv
  smp,       \* check_spin2_structure.py: its module-level names
  spin_csv,  \* data/spin2_F2_samples.csv
  rep,       \* make_all_figures_and_tables.py: the lists main() holds
  results,   \* the figures and tables written under figures/ and results/
  call       \* a caller of the imported module: arguments, locals and result

vars == <<pc, scan, band_csv, smp, spin_csv, rep, results, call>>

(***************************************************************************)
(* scripts/check_spin2_structure.py                                        *)
(***************************************************************************)
Idx == 0..3

One == Lit(1, 0)
Half == Lit(5, -1)
Third == FDiv(Lit(1, 0), Lit(3, 0))
SkipTol == Lit(1, -8)
ThetaTol == Lit(1, -10)

\* Minkowski metric with signature (-,+,+,+)
eta ==
  [mu \in Idx |-> [nu \in Idx |->
     IF mu # nu THEN Zero ELSE IF mu = 0 THEN FNeg(One) ELSE One]]

\* sum() of three floats from the start value 0, as the interpreters up to
\* CPython 3.11 compute it: the running total rounded after every addition
SumPlain(a, b, c) == FAdd(FAdd(FAdd(Zero, a), b), c)

\* The correction one addition f + x = t contributes to a compensated sum
\* (Neumaier): the low-order part of the operand of smaller magnitude.
SumLost(f, x, t) ==
  IF FCmp(FAbs(f), FAbs(x)) >= 0 THEN FAdd(FSub(f, t), x) ELSE FAdd(FSub(x, t), f)

SumStepAt(fc, x, t) == <<t, FAdd(fc[2], SumLost(fc[1], x, t))>>

\* fc = <<f_result, c>>:  t = f_result + x; c += ...; f_result = t
SumStep(fc, x) == SumStepAt(fc, x, FAdd(fc[1], x))

\* if c: f_result += c
SumEnd(fc) == IF FIsZero(fc[2]) THEN fc[1] ELSE FAdd(fc[1], fc[2])

\* sum() of three floats as CPython 3.12 and later compute it: 0 + a is the
\* first total, every further float is added with compensation
SumCompensated(a, b, c) == SumEnd(SumStep(SumStep(<<FAdd(Zero, a), Zero>>, b), c))

\* k^2 = -k[0]*k[0] + sum(k[i]*k[i] for i in 1..3); which sum() it is
\* depends on the interpreter the module runs in
minkowski_k2(k) ==
  FAdd(FMul(FNeg(k[0]), k[0]),
       IF smp.compensated
       THEN SumCompensated(FMul(k[1], k[1]), FMul(k[2], k[2]), FMul(k[3], k[3]))
       ELSE SumPlain(FMul(k[1], k[1]), FMul(k[2], k[2]), FMul(k[3], k[3])))

\* the guard without abs:  k2 < 1e-10
ThetaRaisesSigned(k) == FLt(minkowski_k2(k), ThetaTol)

\* theta_tensor: the guard  abs(k2) < 1e-10  that raises ValueError
ThetaRaises(k) == FLt(FAbs(minkowski_k2(k)), ThetaTol)

\* theta_{mu nu} = eta_{mu nu} - k_mu k_nu / k^2
theta_from(k, k2) ==
  [mu \in Idx |-> [nu \in Idx |->
     FSub(IF mu = nu THEN eta[mu][nu] ELSE Zero, FDiv(FMul(k[mu], k[nu]), k2))]]

theta_tensor(k) == theta_from(k, minkowski_k2(k))

\* term1 without its second, symmetrising product
P2_entryUnsymmetrised(theta, mu, nu, rho, sigma) ==
  FSub(FMul(Half, FMul(theta[mu][rho], theta[nu][sigma])),
       FMul(FMul(Third, theta[mu][nu]), theta[rho][sigma]))

\* P2[mu][nu][rho][sigma] = term1 - term2, from theta = theta_tensor(k)
P2_entry(theta, mu, nu, rho, sigma) ==
  LET term1 == FMul(Half, FAdd(FMul(theta[mu][rho], theta[nu][sigma]),
                               FMul(theta[mu][sigma], theta[nu][rho])))
      term2 == FMul(FMul(Third, theta[mu][nu]), theta[rho][sigma])
  IN  FSub(term1, term2)

P2_tensor(theta) ==
  [mu \in Idx |-> [nu \in Idx |-> [rho \in Idx |-> [sigma \in Idx |->
     P2_entry(theta, mu, nu, rho, sigma)]]]]

\* both factors with a minus sign:  (q_mu k_nu - q_nu k_mu)(q_rho k_sigma - q_sigma k_rho)
N_tensorAntisymmetric(q, k) ==
  [mu \in Idx |-> [nu \in Idx |-> [rho \in Idx |-> [sigma \in Idx |->
     FMul(FSub(FMul(q[mu], k[nu]), FMul(q[nu], k[mu])),
          FSub(FMul(q[rho], k[sigma]), FMul(q[sigma], k[rho])))]]]]

\* N_{mu nu rho sigma} = (q_mu k_nu + q_nu k_mu)(q_rho k_sigma + q_sigma k_rho)
N_tensor(q, k) ==
  [mu \in Idx |-> [nu \in Idx |-> [rho \in Idx |-> [sigma \in Idx |->
     LET A == FAdd(FMul(q[mu], k[nu]), FMul(q[nu], k[mu]))
         B == FAdd(FMul(q[rho], k[sigma]), FMul(q[sigma], k[rho]))
     IN  FMul(A, B)]]]]

\* One step of the three inner loops of contract_P2_N for a fixed mu
\* (P = P2[mu], M = N[mu]).  jv = <<j, val>>, the j-th triple (nu, rho, sigma)
\* being j = 16 nu + 4 rho + sigma:
\*   val += P2[mu][nu][rho][sigma] * N[mu][nu][rho][sigma]
contract_term(jv, P, M) ==
  <<jv[1] + 1,
    FAdd(jv[2], FMul(P[jv[1] \div 16][(jv[1] \div 4) % 4][jv[1] % 4],
                     M[jv[1] \div 16][(jv[1] \div 4) % 4][jv[1] % 4]))>>

\* the innermost loop over sigma, then on to the next (nu, rho)
RECURSIVE contract_from(_, _, _)
contract_from(jv, P, M) ==
  IF jv[1] = 64 THEN jv[2]
  ELSE contract_from(
         contract_term(contract_term(contract_term(contract_term(jv, P, M), P, M), P, M), P, M),
         P, M)

\* val after the pass for mu
contract_mu(P2, N, val, mu) == contract_from(<<0, val>>, P2[mu], N[mu])

q0 == Lit(1, 0)
OMEGAS == <<Lit(5, -1), Lit(1, 0), Lit(15, -1), Lit(2, 0)>>
KXS == <<Lit(5, -1), Lit(1, 0), Lit(15, -1)>>
KYS == <<Lit(0, 0)>>
KZS == <<Lit(0, 0)>>

QVec(t) == [mu \in Idx |-> IF mu = 0 THEN t ELSE Zero]

\* the loop test without abs:  k2 < 1e-8
SkipSampleSigned(k2) == FLt(k2, SkipTol)

\* the loop test  abs(k2) < 1e-8  that skips a sample
SkipSample(k2) == FLt(FAbs(k2), SkipTol)

\* the nested for loops, as the list of the vectors they visit in order
SweepAt(n) ==
  LET m == n - 1
      kz == m % Len(KZS)
      ky == (m \div Len(KZS)) % Len(KYS)
      kx == (m \div (Len(KZS) * Len(KYS))) % Len(KXS)
      om == m \div (Len(KZS) * Len(KYS) * Len(KXS))
  IN  [mu \in Idx |-> CASE mu = 0 -> OMEGAS[om + 1] [] mu = 1 -> KXS[kx + 1]
                        [] mu = 2 -> KYS[ky + 1] [] OTHER -> KZS[kz + 1]]

SweepLen == Len(OMEGAS) * Len(KXS) * Len(KYS) * Len(KZS)

SpinHeader == <<"omega", "kx", "ky", "kz", "k2", "F2">>

SmpIdle ==
  [n |-> 0, q |-> <<>>, k |-> <<>>, k2 |-> Undefined, theta |-> <<>>, P2 |-> <<>>,
   N |-> <<>>, mu |-> 0, val |-> Undefined, F2_val |-> Undefined, rows |-> <<>>, num_pos |-> 0, num_neg |-> 0,
   compensated |-> FALSE]

(***************************************************************************)
(* scripts/make_all_figures_and_tables.py                                  *)
(***************************************************************************)
\* [f(x) for x in xs]
Map(xs, F(_)) == [i \in 1..Len(xs) |-> F(xs[i])]

\* sum(1 for x in xs if P(x))
Count(xs, P(_)) == Cardinality({i \in 1..Len(xs) : P(xs[i])})

\* [x for x, s in zip(xs, mask) if s]
Where(xs, mask) ==
  LET n == IF Len(xs) < Len(mask) THEN Len(xs) ELSE Len(mask)
      idx == SelectSeq([i \in 1..n |-> i], LAMBDA i : mask[i])
  IN  [j \in 1..Len(idx) |-> xs[idx[j]]]

\* [conv(r[name]) for r in rows], for each of the named columns
FloatColumns(csv, names, Conv(_)) ==
  [f \in names |-> Map(csv.rows, LAMBDA r : Conv(r[f]))]

load_healthy_band(csv) ==
  FloatColumns(csv, {"Pprime", "P2prime", "Zs", "Zt"}, ParseFloat3)
    @@ FloatColumns(csv, {"ghost_ok", "grad_ok"}, ParseInt)

load_spin2_F2(csv) ==
  FloatColumns(csv, {"omega", "kx", "ky", "kz", "k2", "F2"}, ParseDec)

\* X0 = 1.0  # same as in scan_healthy_band.py
FigX0 == Lit(1, 0)

\* y_vals = [p + 2.0 * X0 * p2 for p, p2 in zip(Pprime, P2prime)]
YVal(p, p2) == FAdd(p, FMul(FMul(Two, FigX0), p2))

\* stable_mask = [(g==1 and r==1) for g, r in zip(ghost_ok, grad_ok)]
StableMask(ghost_ok, grad_ok) ==
  [i \in 1..(IF Len(ghost_ok) < Len(grad_ok) THEN Len(ghost_ok) ELSE Len(grad_ok)) |->
     ghost_ok[i] = 1 /\ grad_ok[i] = 1]

\* the mask copied without its negation
UnstableMaskCopied(stable_mask) == [i \in 1..Len(stable_mask) |-> stable_mask[i]]

\* unstable_mask = [not s for s in stable_mask]
UnstableMask(stable_mask) == [i \in 1..Len(stable_mask) |-> ~stable_mask[i]]

\* the two scatter series of figures/fig_healthy_band_scan.png
BandSeries(x_vals, y_vals, stable_mask, unstable_mask) ==
  [x_vals |-> x_vals, y_vals |-> y_vals,
   stable_mask |-> stable_mask, unstable_mask |-> unstable_mask,
   x_stable |-> Where(x_vals, stable_mask), y_stable |-> Where(y_vals, stable_mask),
   x_unst |-> Where(x_vals, unstable_mask), y_unst |-> Where(y_vals, unstable_mask)]

BandMasks(x_vals, y_vals, stable_mask) ==
  BandSeries(x_vals, y_vals, stable_mask, UnstableMask(stable_mask))

make_fig_healthy_band(Pprime, P2prime, ghost_ok, grad_ok) ==
  BandMasks(Pprime,
            [i \in 1..(IF Len(Pprime) < Len(P2prime) THEN Len(Pprime)
                       ELSE Len(P2prime)) |-> YVal(Pprime[i], P2prime[i])],
            StableMask(ghost_ok, grad_ok))

\* float("nan")
NaN == [neg |-> FALSE, m |-> <<>>, e |-> 1]

\* frac_stable = n_stable / total if total > 0 else float("nan"), as f"{..:.3f}"
FracStable(n_stable, total) ==
  IF total > 0 THEN <<Fmt3(FDiv(IntToDouble(n_stable), IntToDouble(total)))>>
  ELSE <<"nan">>

BandStats(total, n_stable) ==
  [total |-> total, n_stable |-> n_stable, frac_stable |-> FracStable(n_stable, total)]

\* the values interpolated into results/table_healthy_band_stats.tex
make_table_healthy_band_stats(Pprime, ghost_ok, grad_ok) ==
  BandStats(Len(Pprime), Count(StableMask(ghost_ok, grad_ok), LAMBDA b : b))

\* the scatter series of figures/fig_spin2_F2_vs_k2.png
make_fig_spin2_F2(k2, F2) == [x |-> k2, y |-> F2]

\* min(xs) and max(xs) of a non-empty list, as Python scans it: the first
\* of the smallest (largest) items
MinOf(m, x) == IF FLt(x, m) THEN x ELSE m

MaxOf(m, x) == IF FGt(x, m) THEN x ELSE m

RECURSIVE ListMin(_, _)
ListMin(xs, n) == IF n = 1 THEN xs[1] ELSE MinOf(ListMin(xs, n - 1), xs[n])

RECURSIVE ListMax(_, _)
ListMax(xs, n) == IF n = 1 THEN xs[1] ELSE MaxOf(ListMax(xs, n - 1), xs[n])

ZeroTol == Lit(1, -12)

NPos(F2) == Count(F2, LAMBDA v : FGt(v, Zero))

NNeg(F2) == Count(F2, LAMBDA v : FLt(v, Zero))

NZero(F2) == Count(F2, LAMBDA v : FLt(FAbs(v), ZeroTol))

\* the values interpolated into results/table_spin2_F2_stats.tex
make_table_spin2_F2_stats(F2) ==
  [total |-> Len(F2), n_pos |-> NPos(F2), n_neg |-> NNeg(F2), n_zero |-> NZero(F2),
   F2_min |-> IF Len(F2) > 0 THEN <<Fmt6g(ListMin(F2, Len(F2)))>> ELSE <<"nan">>,
   F2_max |-> IF Len(F2) > 0 THEN <<Fmt6g(ListMax(F2, Len(F2)))>> ELSE <<"nan">>]

RepIdle == [hb |-> <<>>, f2 |-> <<>>]

NoResults == [fig_band |-> <<>>, tab_band |-> <<>>, fig_spin2 |-> <<>>, tab_spin2 |-> <<>>]

\* q = [q0, 0.0, 0.0, 0.0]; rows = []; the interpreter running the module
\* has either the plain or the compensated sum()
SmpStart ==
  /\ pc = "smp_start"
  /\ \E compensated \in BOOLEAN :
       smp' = [smp EXCEPT !.q = QVec(q0), !.rows = <<>>, !.n = 1,
                          !.compensated = compensated]
  /\ pc' = "smp_loop"
  /\ UNCHANGED <<call, scan, band_csv, spin_csv, rep, results>>

\* the head of the loop body: k, k2 and the skip test; "smp_except" is the
\* handler  except ValueError: continue
SmpLoop ==
  /\ pc \in {"smp_loop", "smp_except"}
  /\ IF smp.n > SweepLen
     THEN /\ pc' = "smp_write"
          /\ smp' = smp
     ELSE \E k \in {SweepAt(smp.n)} : \E k2 \in {minkowski_k2(k)} :
            IF SkipSample(k2)
            THEN /\ smp' = [smp EXCEPT !.k = k, !.k2 = k2, !.n = @ + 1]
                 /\ pc' = "smp_loop"
            ELSE /\ smp' = [smp EXCEPT !.k = k, !.k2 = k2]
                 /\ pc' = "smp_theta"
  /\ UNCHANGED <<call, scan, band_csv, spin_csv, rep, results>>

\* P2 = P2_tensor(k), first half: theta = theta_tensor(k), which may raise
SmpTheta ==
  /\ pc = "smp_theta"
  /\ IF ThetaRaises(smp.k)
     THEN /\ smp' = [smp EXCEPT !.n = @ + 1]
          /\ pc' = "smp_except"
     ELSE /\ smp' = [smp EXCEPT !.theta = theta_tensor(smp.k)]
          /\ pc' = "smp_P2"
  /\ UNCHANGED <<call, scan, band_csv, spin_csv, rep, results>>

\* P2 = P2_tensor(k), second half: the four nested loops over theta
SmpP2 ==
  /\ pc = "smp_P2"
  /\ smp' = [smp EXCEPT !.P2 = P2_tensor(smp.theta)]
  /\ pc' = "smp_N"
  /\ UNCHANGED <<call, scan, band_csv, spin_csv, rep, results>>

\* N = N_tensor(q, k); contract_P2_N(P2, N) is entered: val = 0.0
SmpN ==
  /\ pc = "smp_N"
  /\ smp' = [smp EXCEPT !.N = N_tensor(smp.q, smp.k), !.val = Zero, !.mu = 0]
  /\ pc' = "smp_contract"
  /\ UNCHANGED <<call, scan, band_csv, spin_csv, rep, results>>

\* contract_P2_N: one pass of  for mu in range(4)
SmpContract ==
  /\ pc = "smp_contract"
  /\ smp.mu \in Idx
  /\ smp' = [smp EXCEPT !.val = contract_mu(smp.P2, smp.N, smp.val, smp.mu),
                        !.mu = @ + 1]
  /\ pc' = "smp_contract"
  /\ UNCHANGED <<call, scan, band_csv, spin_csv, rep, results>>

\* return val; F2_val = ...; rows.append({...})
SmpAppend ==
  /\ pc = "smp_contract"
  /\ smp.mu \notin Idx
  /\ smp' = [smp EXCEPT !.F2_val = smp.val, !.n = @ + 1,
                !.rows = Append(@, [omega |-> smp.k[0], kx |-> smp.k[1],
                                    ky |-> smp.k[2], kz |-> smp.k[3],
                                    k2 |-> smp.k2, F2 |-> smp.val])]
  /\ pc' = "smp_loop"
  /\ UNCHANGED <<call, scan, band_csv, spin_csv, rep, results>>

\* open(out_path, "w"); writerow(header); the outer frange starts
ScanOpen ==
  /\ pc = "scan_open"
  /\ band_csv' = [header |-> BandHeader, rows |-> <<>>]
  /\ scan' = [scan EXCEPT !.xo = PPRIME_MIN]
  /\ pc' = "scan_outer"
  /\ UNCHANGED <<call, smp, spin_csv, rep, results>>

\* for Pprime in frange(PPRIME_MIN, PPRIME_MAX, PPRIME_STEP)
ScanOuter ==
  /\ pc = "scan_outer"
  /\ IF FrangeContinues(scan.xo, PPRIME_MAX)
     THEN /\ scan' = [scan EXCEPT !.Pprime = scan.xo, !.xi = P2PRIME_MIN]
          /\ pc' = "scan_inner"
     ELSE /\ scan' = scan
          /\ pc' = "scan_done"
  /\ UNCHANGED <<call, band_csv, smp, spin_csv, rep, results>>

\* for P2prime in frange(P2PRIME_MIN, P2PRIME_MAX, P2PRIME_STEP): the body
ScanInner ==
  /\ pc = "scan_inner"
  /\ IF FrangeContinues(scan.xi, P2PRIME_MAX)
     THEN LET Pprime == scan.Pprime
              P2prime == scan.xi
              Zs == ZsOf(Pprime)
              Zt == ZtOf(Pprime, P2prime)
              ghost_ok == GhostOk(Zt)
              grad_ok == GradOk(Zs)
              cs2 == Cs2Of(Zs, Zt, ghost_ok)
          IN  /\ scan' = [scan EXCEPT !.P2prime = P2prime, !.Zs = Zs, !.Zt = Zt,
                                      !.ghost_ok = ghost_ok, !.grad_ok = grad_ok,
                                      !.cs2 = cs2,
                                      !.xi = FrangeAdvance(scan.xi, P2PRIME_STEP)]
              /\ band_csv' = [band_csv EXCEPT !.rows = Append(@,
                     BandRow(Pprime, P2prime, Zs, Zt, cs2, ghost_ok, grad_ok))]
              /\ pc' = "scan_inner"
              /\ UNCHANGED <<call, smp, spin_csv, rep, results>>
     ELSE /\ scan' = [scan EXCEPT !.xo = FrangeAdvance(scan.xo, PPRIME_STEP)]
          /\ pc' = "scan_outer"
          /\ UNCHANGED <<call, band_csv, smp, spin_csv, rep, results>>

\* with open(out_path, "w"): the header and one writerow per element of rows
SmpWrite ==
  /\ pc = "smp_write"
  /\ spin_csv' = [header |-> SpinHeader,
                  rows |-> Map(smp.rows, LAMBDA r : [f \in DOMAIN r |-> Repr(r[f])])]
  /\ pc' = "smp_counts"
  /\ UNCHANGED <<call, scan, band_csv, smp, rep, results>>

\* num_pos, num_neg and the two print calls
SmpCounts ==
  /\ pc = "smp_counts"
  /\ smp' = [smp EXCEPT !.num_pos = Count(smp.rows, LAMBDA r : FGt(r.F2, Zero)),
                        !.num_neg = Count(smp.rows, LAMBDA r : FLt(r.F2, Zero))]
  /\ pc' = "smp_done"
  /\ UNCHANGED <<call, scan, band_csv, spin_csv, rep, results>>

\* the interpreter exits
SmpExit ==
  /\ pc = "smp_done"
  /\ smp' = SmpIdle
  /\ pc' = "shell"
  /\ UNCHANGED <<call, scan, band_csv, spin_csv, rep, results>>

ScanExit ==
  /\ pc = "scan_done"
  /\ scan' = ScanIdle
  /\ pc' = "shell"
  /\ UNCHANGED <<call, band_csv, smp, spin_csv, rep, results>>

\* main(): Pprime, P2prime, Zs, Zt, ghost_ok, grad_ok = load_healthy_band()
\* open(path) raises FileNotFoundError when the scanner has not run: the
\* traceback ends the run before anything is written
RepLoadBand ==
  /\ pc = "rep_load_band"
  /\ IF band_csv = NoFile
     THEN /\ rep' = RepIdle
          /\ pc' = "shell"
     ELSE /\ rep' = [rep EXCEPT !.hb = load_healthy_band(band_csv)]
          /\ pc' = "rep_fig_band"
  /\ UNCHANGED <<call, scan, band_csv, smp, spin_csv, results>>

\* main(): make_fig_healthy_band(Pprime, P2prime, ghost_ok, grad_ok)
RepFigBand ==
  /\ pc = "rep_fig_band"
  /\ results' = [results EXCEPT !.fig_band =
        make_fig_healthy_band(rep.hb.Pprime, rep.hb.P2prime, rep.hb.ghost_ok, rep.hb.grad_ok)]
  /\ pc' = "rep_table_band"
  /\ UNCHANGED <<call, scan, band_csv, smp, spin_csv, rep>>

\* main(): make_table_healthy_band_stats(Pprime, ghost_ok, grad_ok)
RepTableBand ==
  /\ pc = "rep_table_band"
  /\ results' = [results EXCEPT !.tab_band =
        make_table_healthy_band_stats(rep.hb.Pprime, rep.hb.ghost_ok, rep.hb.grad_ok)]
  /\ pc' = "rep_load_spin2"
  /\ UNCHANGED <<call, scan, band_csv, smp, spin_csv, rep>>

\* main(): omega, kx, ky, kz, k2, F2 = load_spin2_F2()
\* open(path) raises FileNotFoundError when the sampler has not run: the
\* run ends with the healthy-band figure and table written and nothing else
RepLoadSpin2 ==
  /\ pc = "rep_load_spin2"
  /\ IF spin_csv = NoFile
     THEN /\ rep' = RepIdle
          /\ pc' = "shell"
     ELSE /\ rep' = [rep EXCEPT !.f2 = load_spin2_F2(spin_csv)]
          /\ pc' = "rep_fig_spin2"
  /\ UNCHANGED <<call, scan, band_csv, smp, spin_csv, results>>

\* main(): make_fig_spin2_F2(k2, F2)
RepFigSpin2 ==
  /\ pc = "rep_fig_spin2"
  /\ results' = [results EXCEPT !.fig_spin2 = make_fig_spin2_F2(rep.f2.k2, rep.f2.F2)]
  /\ pc' = "rep_table_spin2"
  /\ UNCHANGED <<call, scan, band_csv, smp, spin_csv, rep>>

\* main(): make_table_spin2_F2_stats(F2)
RepTableSpin2 ==
  /\ pc = "rep_table_spin2"
  /\ results' = [results EXCEPT !.tab_spin2 = make_table_spin2_F2_stats(rep.f2.F2)]
  /\ pc' = "rep_done"
  /\ UNCHANGED <<call, scan, band_csv, smp, spin_csv, rep>>

\* print("All figures and tables generated."); the interpreter exits
RepExit ==
  /\ pc = "rep_done"
  /\ rep' = RepIdle
  /\ pc' = "shell"
  /\ UNCHANGED <<call, scan, band_csv, smp, spin_csv, results>>

\* The two generator scripts are run once each, in either order; the report
\* is run at any time, whatever files are there.
RunSampler ==
  /\ pc = "shell" /\ spin_csv = NoFile
  /\ pc' = "smp_start"
  /\ UNCHANGED <<call, scan, band_csv, smp, spin_csv, rep, results>>

RunScanner ==
  /\ pc = "shell" /\ band_csv = NoFile
  /\ pc' = "scan_open"
  /\ UNCHANGED <<call, scan, band_csv, smp, spin_csv, rep, results>>

RunReport ==
  /\ pc = "shell"
  /\ pc' = "rep_load_band"
  /\ UNCHANGED <<call, scan, band_csv, smp, spin_csv, rep, results>>

(***************************************************************************)
(* The functions of check_spin2_structure.py called directly, as an        *)
(* importing caller does:  contract_P2_N(P2_tensor(k), N_tensor(q, k)).    *)
(* The module has no __main__ guard: import executes the whole sampler, so *)
(* a call is made with the sampler's names and its CSV file in place.      *)
(***************************************************************************)
\* the caller's arguments (the fields q and k are set at the call), the
\* locals of the functions called and the value returned
CallIdle ==
  [q |-> <<>>, k |-> <<>>, k2 |-> Undefined, theta |-> <<>>, P2 |-> <<>>, N |-> <<>>,
   mu |-> 0, val |-> Undefined, ret |-> Undefined]

\* P2_tensor(k), first half: theta = theta_tensor(k); a ValueError propagates
CallTheta ==
  /\ pc = "call_theta"
  /\ IF ThetaRaises(call.k)
     THEN /\ call' = [call EXCEPT !.k2 = minkowski_k2(call.k)]
          /\ pc' = "call_raised"
     ELSE /\ call' = [call EXCEPT !.k2 = minkowski_k2(call.k), !.theta = theta_tensor(call.k)]
          /\ pc' = "call_P2"
  /\ UNCHANGED <<scan, band_csv, smp, spin_csv, rep, results>>

CallP2 ==
  /\ pc = "call_P2"
  /\ call' = [call EXCEPT !.P2 = P2_tensor(call.theta)]
  /\ pc' = "call_N"
  /\ UNCHANGED <<scan, band_csv, smp, spin_csv, rep, results>>

CallN ==
  /\ pc = "call_N"
  /\ call' = [call EXCEPT !.N = N_tensor(call.q, call.k), !.val = Zero, !.mu = 0]
  /\ pc' = "call_contract"
  /\ UNCHANGED <<scan, band_csv, smp, spin_csv, rep, results>>

CallContract ==
  /\ pc = "call_contract"
  /\ call.mu \in Idx
  /\ call' = [call EXCEPT !.val = contract_mu(call.P2, call.N, call.val, call.mu), !.mu = @ + 1]
  /\ pc' = pc
  /\ UNCHANGED <<scan, band_csv, smp, spin_csv, rep, results>>

\* return val
CallReturn ==
  /\ pc = "call_contract"
  /\ call.mu \notin Idx
  /\ call' = [call EXCEPT !.ret = call.val]
  /\ pc' = "call_returned"
  /\ UNCHANGED <<scan, band_csv, smp, spin_csv, rep, results>>

\* The arguments of the direct calls: reference vectors (q0, 0, 0, 0) and
\* four-vectors k, null, near-null on either side of both tolerances, and
\* generic ones.
CallQ0s == {Lit(1, 0), NegLit(2, 0)}

CallOmegas == {Lit(0, 0), Lit(1, 0), NegLit(15, -1)}

CallKxs == {Lit(1, 0), Lit(5, -6), Lit(3, -5), Lit(2, -4), Lit(1000000001, -9)}

CallKys == {Lit(0, 0), Lit(5, -1)}

CallKzs == {Lit(0, 0), NegLit(2, 0)}

KVec(omega, kx, ky, kz) ==
  [mu \in Idx |-> CASE mu = 0 -> omega [] mu = 1 -> kx [] mu = 2 -> ky [] OTHER -> kz]

\* the module body has run to its end (the import is complete) and the
\* caller calls the functions on chosen arguments
CallEnter ==
  /\ pc = "smp_done"
  /\ \E t \in CallQ0s, omega \in CallOmegas, kx \in CallKxs, ky \in CallKys, kz \in CallKzs :
       call' = [CallIdle EXCEPT !.q = QVec(t), !.k = KVec(omega, kx, ky, kz)]
  /\ pc' = "call_theta"
  /\ UNCHANGED <<scan, band_csv, smp, spin_csv, rep, results>>

Calls == CallEnter \/ CallTheta \/ CallP2 \/ CallN \/ CallContract \/ CallReturn

NoData ==
  /\ scan = ScanIdle
  /\ band_csv = NoFile
  /\ spin_csv = NoFile
  /\ rep = RepIdle
  /\ results = NoResults
  /\ call = CallIdle

\* the module body is started, by python or by an import
InitSpin2 ==
  /\ NoData
  /\ pc = "smp_start"
  /\ smp = SmpIdle

Init ==
  /\ pc = "shell"
  /\ scan = ScanIdle
  /\ band_csv = NoFile
  /\ smp = SmpIdle
  /\ spin_csv = NoFile
  /\ rep = RepIdle
  /\ results = NoResults
  /\ call = CallIdle

Sampler ==
  \/ SmpStart \/ SmpLoop \/ SmpTheta \/ SmpP2 \/ SmpN \/ SmpContract \/ SmpAppend
  \/ SmpWrite \/ SmpCounts \/ SmpExit

Scanner == ScanOpen \/ ScanOuter \/ ScanInner \/ ScanExit

Report ==
  \/ RepLoadBand \/ RepFigBand \/ RepTableBand
  \/ RepLoadSpin2 \/ RepFigSpin2 \/ RepTableSpin2 \/ RepExit

Next == RunSampler \/ RunScanner \/ RunReport \/ Sampler \/ Scanner \/ Report

\* the three scripts run from the shell
Spec == Init /\ [][Next]_vars

NextSpin2 == Sampler \/ Calls

\* check_spin2_structure.py alone, run as a script or called as a module
SpecSpin2 == InitSpin2 /\ [][NextSpin2]_vars

\* The F2 column of a spin2_F2_samples.csv found in data/: exact zero and
\* values just inside, at and just outside the 1e-12 band, of both signs.
F2Fields ==
  {[neg |-> FALSE, d |-> <<>>, p |-> 0],
   [neg |-> FALSE, d |-> <<9>>, p |-> -13], [neg |-> TRUE, d |-> <<9>>, p |-> -13],
   [neg |-> FALSE, d |-> <<1>>, p |-> -12], [neg |-> TRUE, d |-> <<11>>, p |-> -13],
   [neg |-> FALSE, d |-> <<11>>, p |-> -13], [neg |-> FALSE, d |-> <<25>>, p |-> -1],
   [neg |-> TRUE, d |-> <<3>>, p |-> 0]}

MaxRows == 3

DecZero == [neg |-> FALSE, d |-> <<>>, p |-> 0]

F2Row(f) == [omega |-> DecZero, kx |-> DecZero, ky |-> DecZero, kz |-> DecZero,
             k2 |-> DecZero, F2 |-> f]

\* the report is run on data files that are already there
InitStats ==
  /\ pc = "shell"
  /\ scan = ScanIdle
  /\ smp = SmpIdle
  /\ rep = RepIdle
  /\ results = NoResults
  /\ call = CallIdle
  /\ band_csv = [header |-> BandHeader, rows |-> <<>>]
  /\ \E n \in 0..MaxRows : \E fs \in [1..n -> F2Fields] :
       spin_csv = [header |-> SpinHeader, rows |-> Map(fs, F2Row)]

NextStats == RunReport \/ Report

SpecStats == InitStats /\ [][NextStats]_vars

(***************************************************************************)
(* Properties.                                                             *)
(***************************************************************************)
\* the value of a natural held in at most two limbs
LimbsValue(a) == Limb(a, 1) + Base * Limb(a, 2)

\* a three-decimal field as a signed number of thousandths
Thousandths(f) == IF f.neg THEN -LimbsValue(f.t) ELSE LimbsValue(f.t)

\* (stop - start) / step + 1, the length of a stepped range with both ends
RangeCount(start, stop, step) == FAdd(FDiv(FSub(stop, start), step), One)

\* C1: in make_table_spin2_F2_stats the three counts written to the table
\* satisfy n_pos + n_neg + n_zero <= total, for every list F2, including
\* values just inside and just outside 1e-12 and exact zero.
C1_CountsWithinTotal ==
  pc = "rep_done" =>
    results.tab_spin2.n_pos + results.tab_spin2.n_neg + results.tab_spin2.n_zero
      <= results.tab_spin2.total

\* the four-vector of a record of the sampler
RowVec(r) == KVec(r.omega, r.kx, r.ky, r.kz)

\* k2 = -omega^2 + kx^2 + ky^2 + kz^2, term by term
NormSquared(k) ==
  FAdd(FAdd(FAdd(FNeg(FMul(k[0], k[0])), FMul(k[1], k[1])), FMul(k[2], k[2])),
       FMul(k[3], k[3]))

\* |k2| >= 1e-8
NonNull(k) == ~FLt(FAbs(NormSquared(k)), Lit(1, -8))

\* the non-null vectors among the first n swept, in sweep order
Retained(n) == SelectSeq([i \in 1..n |-> SweepAt(i)], NonNull)

\* C2: the sampler loop appends exactly one record for every swept vector
\* with |k2| >= 1e-8 and none for a vector with |k2| < 1e-8: between two
\* iterations the records are the non-null vectors swept so far, each once
\* and in order; (1, 1, 0, 0) is never recorded, and when the loop is over
\* (2, 1, 0, 0) is among the records, one row for each of the 12 - 3 vectors
\* with omega # kx.
C2_OneRecordPerNonNullVector ==
  /\ pc = "smp_loop" =>
       [i \in 1..Len(smp.rows) |-> RowVec(smp.rows[i])] = Retained(smp.n - 1)
  /\ pc \in {"smp_loop", "smp_write", "smp_counts", "smp_done"} =>
       /\ \A i \in 1..Len(smp.rows) :
            /\ RowVec(smp.rows[i]) # KVec(Lit(1, 0), Lit(1, 0), Lit(0, 0), Lit(0, 0))
            /\ ~FEq(smp.rows[i].omega, smp.rows[i].kx)
            /\ smp.rows[i].k2 = minkowski_k2(RowVec(smp.rows[i]))
  /\ pc = "smp_write" =>
       /\ Len(smp.rows) = 12 - 3
       /\ \E i \in 1..Len(smp.rows) :
            /\ RowVec(smp.rows[i]) = KVec(Lit(2, 0), Lit(1, 0), Lit(0, 0), Lit(0, 0))
            /\ smp.rows[i].k2 = NegLit(3, 0)
       /\ \A n \in 1..SweepLen :
            Cardinality({i \in 1..Len(smp.rows) : RowVec(smp.rows[i]) = SweepAt(n)})
              = IF NonNull(SweepAt(n)) THEN 1 ELSE 0

C2_Witness ==
  /\ pc = "smp_write"
  /\ Len(smp.rows) = 9
  /\ \E n \in 1..SweepLen : ~NonNull(SweepAt(n))

\* One term of the eta-raised sum, jv = <<j, val>> with
\* j = 64 mu + 16 nu + 4 rho + sigma:
\*   val += eta[mu][mu]*eta[nu][nu]*eta[rho][rho]*eta[sigma][sigma]*P2[..]*N[..]
RaisedTerm(jv, P2, N) ==
  <<jv[1] + 1,
    FAdd(jv[2],
         FMul(FMul(FMul(FMul(FMul(eta[jv[1] \div 64][jv[1] \div 64],
                                  eta[(jv[1] \div 16) % 4][(jv[1] \div 16) % 4]),
                             eta[(jv[1] \div 4) % 4][(jv[1] \div 4) % 4]),
                        eta[jv[1] % 4][jv[1] % 4]),
                   P2[jv[1] \div 64][(jv[1] \div 16) % 4][(jv[1] \div 4) % 4][jv[1] % 4]),
              N[jv[1] \div 64][(jv[1] \div 16) % 4][(jv[1] \div 4) % 4][jv[1] % 4]))>>

Raised4(jv, P2, N) == RaisedTerm(RaisedTerm(RaisedTerm(RaisedTerm(jv, P2, N), P2, N), P2, N), P2, N)

RECURSIVE RaisedFrom(_, _, _)
RaisedFrom(jv, P2, N) ==
  IF jv[1] = 256 THEN jv[2]
  ELSE RaisedFrom(Raised4(Raised4(Raised4(Raised4(jv, P2, N), P2, N), P2, N), P2, N), P2, N)

\* P^{mu nu rho sigma} N_{mu nu rho sigma}, the indices raised with eta
RaisedContraction(P2, N) == RaisedFrom(<<0, Zero>>, P2, N)

\* C3: for q = (q0, 0, 0, 0), q0 # 0, and every non-null k the result of
\* contract_P2_N(P2_tensor(k), N_tensor(q, k)) equals the eta-raised sum of
\* the 256 products.
C3_ContractionIsEtaRaised ==
  /\ pc = "call_returned" => FEq(call.ret, RaisedContraction(call.P2, call.N))
  /\ (pc = "smp_loop" /\ smp.rows # <<>>) =>
       FEq(smp.F2_val, RaisedContraction(smp.P2, smp.N))

\* the record the scanner has just written and the locals it was written from
JustWritten == pc = "scan_inner" /\ band_csv.rows # <<>> /\ scan.xi # P2PRIME_MIN

LastRow == band_csv.rows[Len(band_csv.rows)]

\* C4: for every record the scanner writes, Zs = Pprime and
\* Zt = Pprime + 2*X0*P2prime; ghost_ok is 1 exactly when Zt > 0 and grad_ok
\* is 1 exactly when Zs > 0; the cs2 field is filled exactly when ghost_ok
\* is true, and then holds Zs / Zt.
C4_FlagsFollowZsZt ==
  JustWritten =>
    /\ LastRow.Pprime = Fmt3(scan.Pprime) /\ LastRow.P2prime = Fmt3(scan.P2prime)
    /\ scan.Zs = scan.Pprime
    /\ scan.Zt = FAdd(scan.Pprime, FMul(FMul(Lit(2, 0), Lit(1, 0)), scan.P2prime))
    /\ LastRow.Zs = Fmt3(scan.Zs) /\ LastRow.Zt = Fmt3(scan.Zt)
    /\ (LastRow.ghost_ok = "1") = (FCmp(scan.Zt, Lit(0, 0)) > 0)
    /\ (LastRow.grad_ok = "1") = (FCmp(scan.Zs, Lit(0, 0)) > 0)
    /\ LastRow.ghost_ok \in {"0", "1"} /\ LastRow.grad_ok \in {"0", "1"}
    /\ (LastRow.cs2 # <<>>) = (LastRow.ghost_ok = "1")
    /\ LastRow.cs2 # <<>> => LastRow.cs2 = <<Fmt3(FDiv(scan.Zs, scan.Zt))>>

\* records of all four flag combinations are written
C4_Witness ==
  /\ pc = "scan_done"
  /\ \A g \in {"0", "1"}, r \in {"0", "1"} :
       \E i \in 1..Len(band_csv.rows) :
         /\ band_csv.rows[i].ghost_ok = g /\ band_csv.rows[i].grad_ok = r
         /\ (band_csv.rows[i].cs2 # <<>>) = (g = "1")

\* C5: the scanner writes ((PPRIME_MAX-PPRIME_MIN)/PPRIME_STEP + 1) *
\* ((P2PRIME_MAX-P2PRIME_MIN)/P2PRIME_STEP + 1) = 41 * 41 records, one for
\* every pair of the two ranges -2.0, -1.9, .. 2.0 with both ends, in
\* row-major order, whatever ghost_ok and grad_ok are.
C5_FullGrid ==
  pc = "scan_done" =>
    /\ Len(band_csv.rows) = 41 * 41
    /\ IntToDouble(Len(band_csv.rows))
         = FMul(RangeCount(PPRIME_MIN, PPRIME_MAX, PPRIME_STEP),
                RangeCount(P2PRIME_MIN, P2PRIME_MAX, P2PRIME_STEP))
    /\ \A i \in 1..41, j \in 1..41 :
         /\ Thousandths(band_csv.rows[41 * (i - 1) + j].Pprime) = 100 * (i - 1) - 2000
         /\ Thousandths(band_csv.rows[41 * (i - 1) + j].P2prime) = 100 * (j - 1) - 2000

C5_Witness ==
  /\ pc = "scan_done"
  /\ Thousandths(band_csv.rows[Len(band_csv.rows)].Pprime) = 2000
  /\ Thousandths(band_csv.rows[Len(band_csv.rows)].P2prime) = 2000
  /\ \E i \in 1..Len(band_csv.rows) :
       band_csv.rows[i].ghost_ok = "0" /\ band_csv.rows[i].grad_ok = "0"

\* C6: for every k with |k2| >= 1e-10 the tensor of P2_tensor(k) is symmetric
\* in its first and in its second pair of indices.
C6_ProjectorSymmetry ==
  \A P \in {smp.P2, call.P2} :
    P # <<>> =>
      \A mu \in Idx, nu \in Idx, rho \in Idx, sigma \in Idx :
        /\ P[mu][nu][rho][sigma] = P[nu][mu][rho][sigma]
        /\ P[mu][nu][rho][sigma] = P[mu][nu][sigma][rho]

\* a projector of a vector with four non-zero components, no two entries
\* of one row of theta alike
C6_Witness ==
  /\ pc = "call_N"
  /\ \A mu \in Idx : ~FIsZero(call.k[mu])
  /\ ~FLt(FAbs(minkowski_k2(call.k)), Lit(1, -10))
  /\ call.P2[0][1][2][3] # call.P2[0][2][1][3]

\* C7: for q = (1, 0, 0, 0) the F2 of every retained sample is non-zero and
\* all retained samples have F2 of one sign: neither the script's num_pos and
\* num_neg nor the report's n_pos and n_neg are both non-zero.
C7_DefiniteSign ==
  /\ pc \in {"smp_loop", "smp_write", "smp_counts", "smp_done"} =>
       /\ smp.q = KVec(Lit(1, 0), Lit(0, 0), Lit(0, 0), Lit(0, 0))
       /\ \A i \in 1..Len(smp.rows) : ~FIsZero(smp.rows[i].F2)
       /\ \A i \in 1..Len(smp.rows), j \in 1..Len(smp.rows) :
            smp.rows[i].F2.neg = smp.rows[j].F2.neg
  /\ pc = "smp_done" =>
       /\ ~(smp.num_pos > 0 /\ smp.num_neg > 0)
       /\ smp.num_pos + smp.num_neg = Len(smp.rows)
  /\ pc = "rep_done" =>
       /\ ~(results.tab_spin2.n_pos > 0 /\ results.tab_spin2.n_neg > 0)
       /\ results.tab_spin2.n_pos + results.tab_spin2.n_neg = results.tab_spin2.total
       /\ results.tab_spin2.n_zero = 0

C7_Witness ==
  /\ pc = "rep_done"
  /\ results.tab_spin2.total = 9
  /\ results.tab_spin2.n_pos = 9

\* C8: theta_tensor raises exactly when |k2| < 1e-10; in the sampler loop it
\* is reached only with |k2| >= 1e-8, so the except branch is never taken,
\* every swept vector is either skipped or recorded, and the loop ends at the
\* CSV write with all of them accounted for.
C8_NoAbortOnNearNull ==
  /\ pc = "call_raised" => FLt(FAbs(minkowski_k2(call.k)), Lit(1, -10))
  /\ pc \in {"call_P2", "call_N", "call_contract", "call_returned"} =>
       ~FLt(FAbs(minkowski_k2(call.k)), Lit(1, -10))
  /\ pc # "smp_except"
  /\ pc \in {"smp_theta", "smp_P2", "smp_N", "smp_contract"} =>
       ~FLt(FAbs(smp.k2), Lit(1, -8))
  /\ pc = "smp_loop" =>
       Len(smp.rows) + Cardinality({n \in 1..(smp.n - 1) : ~NonNull(SweepAt(n))}) = smp.n - 1
  /\ pc = "smp_write" => smp.n = SweepLen + 1

\* a call on a vector between the two tolerances goes through
C8_Witness ==
  /\ pc = "call_returned"
  /\ FLt(FAbs(call.k2), Lit(1, -8))
  /\ ~FLt(FAbs(call.k2), Lit(1, -10))

\* C9: the report puts every grid record in exactly one of two categories,
\* stable when ghost_ok == 1 and grad_ok == 1 and unstable otherwise; the two
\* point sets are disjoint and together hold every loaded record, and the
\* n_stable of the table is the number of stable points, 0 <= n_stable <= total.
C9_TwoCategories ==
  pc = "rep_done" =>
    /\ Len(results.fig_band.stable_mask) = Len(rep.hb.Pprime)
    /\ Len(results.fig_band.unstable_mask) = Len(rep.hb.Pprime)
    /\ \A i \in 1..Len(rep.hb.Pprime) :
         /\ results.fig_band.stable_mask[i]
              = (rep.hb.ghost_ok[i] = 1 /\ rep.hb.grad_ok[i] = 1)
         /\ results.fig_band.unstable_mask[i] # results.fig_band.stable_mask[i]
    /\ Len(results.fig_band.x_stable) + Len(results.fig_band.x_unst) = Len(rep.hb.Pprime)
    /\ Len(results.fig_band.y_stable) = Len(results.fig_band.x_stable)
    /\ Len(results.fig_band.y_unst) = Len(results.fig_band.x_unst)
    /\ results.tab_band.total = Len(rep.hb.Pprime)
    /\ results.tab_band.n_stable = Len(results.fig_band.x_stable)
    /\ results.tab_band.n_stable
         = Cardinality({i \in 1..Len(rep.hb.Pprime) :
                          rep.hb.ghost_ok[i] = 1 /\ rep.hb.grad_ok[i] = 1})
    /\ 0 <= results.tab_band.n_stable
    /\ results.tab_band.n_stable <= results.tab_band.total

\* both categories are populated, by records of every flag combination
C9_Witness ==
  /\ pc = "rep_done"
  /\ results.tab_band.n_stable > 0
  /\ results.tab_band.n_stable < results.tab_band.total
  /\ \E i \in 1..Len(rep.hb.Pprime) : rep.hb.ghost_ok[i] = 1 /\ rep.hb.grad_ok[i] = 0
  /\ \E i \in 1..Len(rep.hb.Pprime) : rep.hb.ghost_ok[i] = 0 /\ rep.hb.grad_ok[i] = 1

\* C10: scanner then report: for every grid record the report's
\* y = Pprime + 2*X0*P2prime, derived from the record, equals the Zt the
\* scanner computed for it; a record is in the healthy-band category exactly
\* when its plotted coordinates satisfy x > 0 and y > 0, and every such
\* record has its cs2 present and positive.
C10_ReportAgreesWithScanner ==
  /\ JustWritten =>
       FEq(YVal(ParseFloat3(LastRow.Pprime), ParseFloat3(LastRow.P2prime)), scan.Zt)
  /\ pc = "rep_done" =>
       \A i \in 1..Len(rep.hb.Pprime) :
         /\ results.fig_band.stable_mask[i]
              = (FGt(results.fig_band.x_vals[i], Zero) /\ FGt(results.fig_band.y_vals[i], Zero))
         /\ results.fig_band.stable_mask[i] =>
              /\ band_csv.rows[i].cs2 # <<>>
              /\ Thousandths(band_csv.rows[i].cs2[1]) > 0
====
